---- MODULE Spec2Model ----
(***************************************************************************)
(* A model of the outbound webhook dispatch pipeline of NaukriScapper:     *)
(* the URL safety validator, the dispatchers, the batch loop of            *)
(* trigger_automated_calls, the callback handler and the storage calls     *)
(* of DataManager they use.                                                *)
(*                                                                         *)
(* Python values are modelled as follows.  An Optional value is a          *)
(* sequence of length at most one: None is << >>, a present value v is     *)
(* <<v>>.  A str is a TLA+ string.  A dict returned by a dispatcher is a   *)
(* record that carries its key set.                                        *)
(***************************************************************************)
EXTENDS Naturals, Sequences, FiniteSets, TLC

VARIABLES
    ALLOW_LOCAL_WEBHOOKS,  \* config: "undefined" (config.py has no such name), "False", "True"
    N8N_WEBHOOK_URL,       \* config.N8N_WEBHOOK_URL, "" when not configured
    MAKE_WEBHOOK_URL,      \* config.MAKE_WEBHOOK_URL, "" when not configured
    WEBHOOK_SECRET,        \* config.WEBHOOK_SECRET, "" when not configured
    candidates,            \* table candidates: id -> status fields of the row
    call_logs,             \* table call_logs, in insertion order
    pc,                    \* position of the trigger_automated_calls request
    batch,                 \* its arguments, loop index and result list
    http_posts,            \* every requests.post issued, in order
    cb_count,              \* callbacks handled so far
    cb_last,               \* outcome of the last callback handled
    v_url,                 \* argument of the validator call under study
    v_result,              \* its outcome
    tr_count,              \* DataManager operations called from outside so far
    tr_last,               \* the last of them: arguments, table before, outcome
    f_args,                \* arguments of the format_call_script call under study
    f_script,              \* its outcome
    cc                     \* callbacks handled at the same time: each one's position

vars == <<ALLOW_LOCAL_WEBHOOKS, N8N_WEBHOOK_URL, MAKE_WEBHOOK_URL, WEBHOOK_SECRET,
          candidates, call_logs, pc, batch, http_posts, cb_count, cb_last,
          v_url, v_result, tr_count, tr_last, f_args, f_script, cc>>

None == << >>
Some(v) == <<v>>

(***************************************************************************)
(* str.startswith                                                          *)
(***************************************************************************)
StartsWith(s, p) == Len(s) >= Len(p) /\ SubSeq(s, 1, Len(p)) = p

\* First position >= i of s holding one of the one-character strings in cs, or Len(s)+1.
RECURSIVE FindFrom(_, _, _)
FindFrom(s, cs, i) ==
    IF i > Len(s) THEN Len(s) + 1
    ELSE IF SubSeq(s, i, i) \in cs THEN i
    ELSE FindFrom(s, cs, i + 1)

\* Last position of s holding the one-character string c, or 0.
RECURSIVE RFind(_, _, _)
RFind(s, c, i) ==
    IF i = 0 THEN 0
    ELSE IF SubSeq(s, i, i) = c THEN i
    ELSE RFind(s, c, i - 1)

UpperChars == <<"A","B","C","D","E","F","G","H","I","J","K","L","M",
                "N","O","P","Q","R","S","T","U","V","W","X","Y","Z">>
LowerChars == <<"a","b","c","d","e","f","g","h","i","j","k","l","m",
                "n","o","p","q","r","s","t","u","v","w","x","y","z">>

ToLower == [c \in {UpperChars[k] : k \in 1..26} |->
               LowerChars[CHOOSE k \in 1..26 : UpperChars[k] = c]]

LowerChar(c) == IF c \in DOMAIN ToLower THEN ToLower[c] ELSE c

\* str.lower
RECURSIVE Lower(_)
Lower(s) ==
    IF Len(s) = 0 THEN ""
    ELSE LowerChar(SubSeq(s, 1, 1)) \o Lower(SubSeq(s, 2, Len(s)))

(***************************************************************************)
(* urllib.parse.urlparse(url), reduced to what the validator reads: the    *)
(* scheme, and .hostname (lower-cased, None when the netloc names no       *)
(* host).  An unclosed bracket in the netloc raises ValueError.            *)
(***************************************************************************)
SplitResult(raises, scheme, hostname) ==
    [raises |-> raises, scheme |-> scheme, hostname |-> hostname]

\* _hostinfo: the host of the netloc part after the userinfo, brackets and port removed.
HostOf(hostp) ==
    IF StartsWith(hostp, "[") THEN SubSeq(hostp, 2, FindFrom(hostp, {"]"}, 1) - 1)
    ELSE SubSeq(hostp, 1, FindFrom(hostp, {":"}, 1) - 1)

HostnameOf(host) == IF host = "" THEN None ELSE Some(Lower(host))

SplitNetloc(scheme, netloc) ==
    IF (FindFrom(netloc, {"["}, 1) <= Len(netloc)) # (FindFrom(netloc, {"]"}, 1) <= Len(netloc))
    THEN SplitResult(TRUE, "", None)
    ELSE SplitResult(FALSE, scheme,
             HostnameOf(HostOf(SubSeq(netloc, RFind(netloc, "@", Len(netloc)) + 1,
                                      Len(netloc)))))

SplitRest(scheme, rest) ==
    IF StartsWith(rest, "//")
    THEN SplitNetloc(scheme, SubSeq(rest, 3, FindFrom(rest, {"/", "?", "#"}, 3) - 1))
    ELSE SplitResult(FALSE, scheme, None)

SplitAt(url, colon) ==
    IF colon <= Len(url) /\ colon > 1
       /\ FindFrom(url, {"/", "?", "#", "[", "@"}, 1) > colon
    THEN SplitRest(Lower(SubSeq(url, 1, colon - 1)), SubSeq(url, colon + 1, Len(url)))
    ELSE SplitRest("", url)

urlsplit(url) == SplitAt(url, FindFrom(url, {":"}, 1))

(***************************************************************************)
(* The URLs the validator is exercised on, with what each one is: the      *)
(* kind of address its host names textually, and the kind of address the   *)
(* name resolves to in DNS.                                                *)
(***************************************************************************)
InternalLiteralUrls ==
    {"http://127.0.0.1:9000/hook", "http://localhost:8000/webhook", "http://0.0.0.0/",
     "http://[::1]:5678/webhook", "http://169.254.169.254/latest/meta-data",
     "http://[fe80::1]/x", "http://10.0.0.5/hook", "http://172.16.0.1/hook",
     "http://172.31.255.254/hook", "https://192.168.1.10/hook", "HTTP://LOCALHOST/x"}

PublicUrls ==
    {"https://hooks.example-automation.com/abc", "https://172.32.0.1/hook",
     "https://localhost.example.com/hook", "https://10.example.com/hook"}

RebindingUrls == {"https://rebind.attacker.example/hook"}

BadSchemeUrls == {"ftp://files.example.com/hook", "file:///etc/passwd",
                  "hooks.example-automation.com/abc"}

MalformedUrls == {"http:///nohost", "http://[::1/x"}

ValidatorUrls ==
    InternalLiteralUrls \cup PublicUrls \cup RebindingUrls \cup BadSchemeUrls
        \cup MalformedUrls

\* What the host of url resolves to: "internal", "public" or "none" (no host to resolve).
ResolvesTo(url) ==
    IF url \in InternalLiteralUrls \cup RebindingUrls THEN "internal"
    ELSE IF url \in PublicUrls \/ url = "ftp://files.example.com/hook" THEN "public"
    ELSE "none"

\* Every URL of the model, and urlparse on them (urllib caches its results).
KnownUrls ==
    ValidatorUrls \cup {"https://n8n.example.com/webhook/calls",
                        "https://hook.make.example/abc"}

UrlTable == [u \in KnownUrls |-> urlsplit(u)]

urlparse(url) == UrlTable[url]

(***************************************************************************)
(* AIIntegration._validate_webhook_url.  The outcome is "accepted" (the    *)
(* method returns True), "rejected" (it returns False) or "raised" (an     *)
(* exception leaves the method).  The import of ALLOW_LOCAL_WEBHOOKS       *)
(* stands before the try block, so an ImportError is not caught there.     *)
(***************************************************************************)
LocalhostPrefixes == {"localhost", "127.0.0.1", "0.0.0.0", "169.254.", "::1", "fe80:"}

Private172Prefixes ==
    {"172.16.", "172.17.", "172.18.", "172.19.", "172.20.", "172.21.", "172.22.",
     "172.23.", "172.24.", "172.25.", "172.26.", "172.27.", "172.28.", "172.29.",
     "172.30.", "172.31."}

is_localhost(hostname_lower) ==
    \E h \in LocalhostPrefixes : StartsWith(hostname_lower, h)

is_private(hostname_lower) ==
    \/ StartsWith(hostname_lower, "10.")
    \/ StartsWith(hostname_lower, "192.168.")
    \/ \E h \in Private172Prefixes : StartsWith(hostname_lower, h)

AllowedSchemes == {"http", "https"}

\* The checks on the host, lines 150 to 170.
CheckHost(hostname_lower) ==
    IF (is_localhost(hostname_lower) \/ is_private(hostname_lower))
       /\ ALLOW_LOCAL_WEBHOOKS = "False"
    THEN "rejected"
    ELSE "accepted"

\* The body of the try block, lines 138 to 170, on the parsed URL.
CheckParsed(parsed) ==
    IF parsed.raises THEN "rejected"
    ELSE IF parsed.scheme \notin AllowedSchemes THEN "rejected"
    ELSE IF parsed.hostname = None THEN "rejected"
    ELSE CheckHost(Lower(parsed.hostname[1]))

validate_webhook_url(url) ==
    IF ALLOW_LOCAL_WEBHOOKS = "undefined" THEN "raised"
    ELSE CheckParsed(urlparse(url))

AllowFlagValues == {"undefined", "False", "True"}

(***************************************************************************)
(* The validator alone: one call on a URL, under each value of the flag.   *)
(***************************************************************************)
InitValidate ==
    /\ ALLOW_LOCAL_WEBHOOKS \in AllowFlagValues
    /\ N8N_WEBHOOK_URL = ""
    /\ MAKE_WEBHOOK_URL = ""
    /\ WEBHOOK_SECRET = ""
    /\ candidates = << >>
    /\ call_logs = << >>
    /\ pc = "idle"
    /\ batch = << >>
    /\ http_posts = << >>
    /\ cb_count = 0
    /\ cb_last = None
    /\ tr_count = 0
    /\ tr_last = None
    /\ f_args = None
    /\ f_script = None
    /\ cc = << >>
    /\ v_url \in ValidatorUrls
    /\ v_result = "pending"

ValidateCall ==
    /\ v_result = "pending"
    /\ v_result' = validate_webhook_url(v_url)
    /\ UNCHANGED <<ALLOW_LOCAL_WEBHOOKS, N8N_WEBHOOK_URL, MAKE_WEBHOOK_URL,
                   WEBHOOK_SECRET, candidates, call_logs, pc, batch, http_posts,
                   cb_count, cb_last, v_url, tr_count, tr_last, f_args, f_script, cc>>

NextValidate == ValidateCall

SpecValidate == InitValidate /\ [][NextValidate]_vars

(***************************************************************************)
(* AIIntegration.format_call_script.  A template is a sequence of          *)
(* segments, each literal text or a replacement field {name}.  str.format  *)
(* fills the fields from left to right and raises on the first one it has  *)
(* no argument for: KeyError for a field name, IndexError for a field      *)
(* that is empty or a number (a positional field; the call passes no       *)
(* positional argument).  The method catches KeyError only and then        *)
(* returns the template as it stands.  The values of a dict are given as   *)
(* str() renders them.                                                     *)
(***************************************************************************)
Lit(t) == [field |-> FALSE, text |-> t]
Field(n) == [field |-> TRUE, text |-> n]

DEFAULT_CALL_SCRIPT ==
    <<Lit("\nHello "), Field("candidate_name"),
      Lit(",\n\nThis is regarding the "), Field("job_role"),
      Lit(" position at our company.\nWe found your profile on Naukri and would like to discuss this opportunity with you.\n\nAre you interested in exploring this opportunity?\n")>>

FormatFields == {"candidate_name", "job_role", "experience_years", "location", "company_name"}

\* dict.get(key, default) on a dict given as a function on its keys
DictGet(d, key, default) == IF key \in DOMAIN d THEN d[key] ELSE default

FormatArgs(candidate_data, job_data) ==
    [candidate_name   |-> DictGet(candidate_data, "name", "Candidate"),
     job_role         |-> DictGet(job_data, "job_role", "a position"),
     experience_years |-> DictGet(candidate_data, "experience_years", "N/A"),
     location         |-> DictGet(job_data, "location", "our office"),
     company_name     |-> DictGet(job_data, "company_name", "our company")]

\* The template text as written, replacement fields in braces.
RECURSIVE TemplateText(_)
TemplateText(template) ==
    IF template = << >> THEN ""
    ELSE (IF Head(template).field THEN "{" \o Head(template).text \o "}"
          ELSE Head(template).text) \o TemplateText(Tail(template))

RECURSIVE Render(_, _)
Render(template, args) ==
    IF template = << >> THEN ""
    ELSE (IF Head(template).field THEN args[Head(template).text]
          ELSE Head(template).text) \o Render(Tail(template), args)

Digits == {"0", "1", "2", "3", "4", "5", "6", "7", "8", "9"}

\* A replacement field that is empty or a number names a positional argument.
IsIndex(n) == \A k \in 1..Len(n) : SubSeq(n, k, k) \in Digits

\* The first replacement field, from position k on, that str.format is given no
\* argument for, or 0.
RECURSIVE FirstUnfilled(_, _)
FirstUnfilled(template, k) ==
    IF k > Len(template) THEN 0
    ELSE IF template[k].field /\ template[k].text \notin FormatFields THEN k
    ELSE FirstUnfilled(template, k + 1)

\* What the method gives: the script it returns, or the exception that leaves it.
Formatted(exc, script) == [exc |-> exc, script |-> script]

\* A formatter that would fill the fields it knows and leave the others as written.
FormatWith_partial(template, unfilled, args) ==
    Formatted("", Render([k \in 1..Len(template) |->
                             IF template[k].field /\ template[k].text \notin FormatFields
                             THEN Lit("{" \o template[k].text \o "}")
                             ELSE template[k]],
                         args))

\* Lines 35 to 46: template.format(...) and the except KeyError clause.
FormatWith(template, unfilled, args) ==
    IF unfilled = 0 THEN Formatted("", Render(template, args))
    ELSE IF IsIndex(template[unfilled].text) THEN Formatted("IndexError", "")
    ELSE Formatted("", TemplateText(template))

\* template = template or DEFAULT_CALL_SCRIPT: None and the empty string are falsy.
TemplateOrDefault(template_arg) ==
    IF template_arg = None \/ template_arg = Some(<< >>) THEN DEFAULT_CALL_SCRIPT
    ELSE template_arg[1]

format_call_script(candidate_data, job_data, template_arg) ==
    FormatWith(TemplateOrDefault(template_arg),
               FirstUnfilled(TemplateOrDefault(template_arg), 1),
               FormatArgs(candidate_data, job_data))

(***************************************************************************)
(* The formatter alone: one call on a candidate dict, a job dict and a     *)
(* template.  The dicts carry any subset of the keys the method reads.     *)
(***************************************************************************)
Restrict(d, keys) == [k \in keys |-> d[k]]

JobData == [job_role |-> "Python Developer", location |-> "Bangalore",
            company_name |-> "Tech Corp"]

CandidateDicts ==
    {Restrict(c, keys) :
        c \in {[name |-> "John Doe", experience_years |-> "3.5"],
               [name |-> "Jane Smith", experience_years |-> "4.0"]},
        keys \in SUBSET {"name", "experience_years"}}

JobDicts == {Restrict(JobData, keys) : keys \in SUBSET DOMAIN JobData}

\* A template that names every field the method fills.
FullTemplate ==
    <<Lit("Hi "), Field("candidate_name"), Lit(", "), Field("company_name"),
      Lit(" in "), Field("location"), Lit(" needs a "), Field("job_role"),
      Lit(" with "), Field("experience_years"), Lit(" years.")>>

\* The template of test_format_call_script_with_custom_template.
TestTemplate ==
    <<Lit("Hello "), Field("candidate_name"), Lit(", we have a "), Field("job_role"),
      Lit(" position.")>>

\* A template with a field the method passes no argument for.
UnknownFieldTemplate ==
    <<Lit("Hi "), Field("candidate_name"), Lit(", call "), Field("recruiter_phone"),
      Lit(" about the "), Field("job_role"), Lit(" role.")>>

\* A template with a positional field.
PositionalTemplate == <<Lit("Hi "), Field("0"), Lit(" from "), Field("company_name")>>

Templates ==
    {None, Some(<< >>), Some(FullTemplate), Some(TestTemplate),
     Some(UnknownFieldTemplate), Some(PositionalTemplate)}

FormatCalls ==
    [candidate_data : CandidateDicts, job_data : JobDicts, template : Templates]

InitFormat ==
    /\ ALLOW_LOCAL_WEBHOOKS = "undefined"
    /\ N8N_WEBHOOK_URL = ""
    /\ MAKE_WEBHOOK_URL = ""
    /\ WEBHOOK_SECRET = ""
    /\ candidates = << >>
    /\ call_logs = << >>
    /\ pc = "idle"
    /\ batch = << >>
    /\ http_posts = << >>
    /\ cb_count = 0
    /\ cb_last = None
    /\ tr_count = 0
    /\ tr_last = None
    /\ v_url = ""
    /\ v_result = "unused"
    /\ f_args \in {Some(c) : c \in FormatCalls}
    /\ f_script = None
    /\ cc = << >>

FormatCall ==
    /\ f_script = None
    /\ f_script' = Some(format_call_script(f_args[1].candidate_data, f_args[1].job_data,
                                           f_args[1].template))
    /\ UNCHANGED <<ALLOW_LOCAL_WEBHOOKS, N8N_WEBHOOK_URL, MAKE_WEBHOOK_URL,
                   WEBHOOK_SECRET, candidates, call_logs, pc, batch, http_posts,
                   cb_count, cb_last, v_url, v_result, tr_count, tr_last, f_args, cc>>

NextFormat == FormatCall

SpecFormat == InitFormat /\ [][NextFormat]_vars

(***************************************************************************)
(* The dispatchers.  A Python value a dispatcher returns is a record:      *)
(* type "dict" with its key set, or type "scalar" (a JSON number, true,    *)
(* false or null, on which the operator `in` raises TypeError); repr is    *)
(* what str() gives.  A dispatcher's outcome is the value it returns or    *)
(* the exception that leaves it, with the requests.post calls it issued.   *)
(***************************************************************************)
PyDict(keys, repr) == [type |-> "dict", keys |-> keys, repr |-> repr]
PyScalar(repr) == [type |-> "scalar", keys |-> {}, repr |-> repr]

Returned(value, posts) == [exc |-> None, value |-> Some(value), posts |-> posts]
Raised(exc, posts) == [exc |-> Some(exc), value |-> None, posts |-> posts]

\* What the network answers to one POST.
NetReplies == {"connection_error", "http_500", "ok_empty", "ok_json_dict",
               "ok_json_dict_error", "ok_json_scalar", "ok_not_json"}

Is2xx(reply) == reply \in {"ok_empty", "ok_json_dict", "ok_json_dict_error",
                           "ok_json_scalar", "ok_not_json"}

\* requests.post(url, json=payload, timeout=30), raise_for_status and the decoding of
\* the body; every failure here is a requests.exceptions.RequestException (with
\* requests >= 2.31, as setup.py asks, so is the JSONDecodeError of response.json()).
post_and_decode(reply) ==
    CASE reply = "connection_error"   -> PyDict({"error"}, "{'error': 'Connection refused'}")
      [] reply = "http_500"           -> PyDict({"error"}, "{'error': '500 Server Error'}")
      [] reply = "ok_not_json"        -> PyDict({"error"}, "{'error': 'Expecting value'}")
      [] reply = "ok_empty"           -> PyDict({"status"}, "{'status': 'success'}")
      [] reply = "ok_json_dict"       -> PyDict({"call_id"}, "{'call_id': 'c-1'}")
      [] reply = "ok_json_dict_error" -> PyDict({"call_id", "error"},
                                                "{'call_id': 'c-1', 'error': None}")
      [] reply = "ok_json_scalar"     -> PyScalar("None")

\* A POST as issued: logs_before is the number of CallLog records at that
\* time, run the trigger_automated_calls call that issued it.
Post(url, candidate_id, script, validated, reply) ==
    [url |-> url, candidate_id |-> candidate_id, script |-> script,
     validated |-> validated, reply |-> reply, logs_before |-> Len(call_logs),
     run |-> batch.run]

\* A dispatcher that would send the POST once more when the first one fails.
send_to_n8n_retrying(candidate_id, script, reply) ==
    IF N8N_WEBHOOK_URL = ""
    THEN Returned(PyDict({"error"}, "{'error': 'N8N webhook URL not configured'}"), << >>)
    ELSE Returned(post_and_decode(reply),
                  IF Is2xx(reply)
                  THEN <<Post(N8N_WEBHOOK_URL, candidate_id, script, FALSE, reply)>>
                  ELSE <<Post(N8N_WEBHOOK_URL, candidate_id, script, FALSE, reply),
                         Post(N8N_WEBHOOK_URL, candidate_id, script, FALSE, reply)>>)

send_to_n8n(candidate_id, script, reply) ==
    IF N8N_WEBHOOK_URL = ""
    THEN Returned(PyDict({"error"}, "{'error': 'N8N webhook URL not configured'}"), << >>)
    ELSE Returned(post_and_decode(reply),
                  <<Post(N8N_WEBHOOK_URL, candidate_id, script, FALSE, reply)>>)

send_to_make(candidate_id, script, reply) ==
    IF MAKE_WEBHOOK_URL = ""
    THEN Returned(PyDict({"error"}, "{'error': 'Make.com webhook URL not configured'}"), << >>)
    ELSE Returned(post_and_decode(reply),
                  <<Post(MAKE_WEBHOOK_URL, candidate_id, script, FALSE, reply)>>)

\* send_to_webhook once the validator has answered.
SendValidated(valid, webhook_url, candidate_id, script, reply) ==
    IF valid = "raised" THEN Raised("ImportError", << >>)
    ELSE IF valid = "rejected"
    THEN Returned(PyDict({"error"}, "{'error': 'Invalid or unsafe webhook URL'}"), << >>)
    ELSE Returned(post_and_decode(reply),
                  <<Post(webhook_url, candidate_id, script, TRUE, reply)>>)

send_to_webhook(webhook_url, candidate_id, script, reply) ==
    SendValidated(validate_webhook_url(webhook_url), webhook_url, candidate_id,
                  script, reply)

(***************************************************************************)
(* DataManager.  A storage call either completes or, when the storage      *)
(* layer fails, raises; a commit that raises leaves nothing of its         *)
(* transaction behind.                                                     *)
(***************************************************************************)
\* An update that would mark the candidate contacted when an interview is set.
update_candidate_status_coupled(cands, candidate_id, contacted, interested, interview_scheduled, interview_date, comments) ==
    IF candidate_id \notin DOMAIN cands THEN cands
    ELSE [cands EXCEPT ![candidate_id] =
            [@ EXCEPT
               !.contacted = IF contacted # None THEN contacted[1]
                             ELSE IF interview_scheduled # None THEN TRUE ELSE @,
               !.interested = IF interested # None THEN interested ELSE @,
               !.interview_scheduled =
                   IF interview_scheduled # None THEN interview_scheduled[1] ELSE @,
               !.interview_date = IF interview_date # None THEN interview_date ELSE @,
               !.comments = IF comments # None THEN comments ELSE @]]

\* An update that would never write interview_date.
update_candidate_status_no_date(cands, candidate_id, contacted, interested, interview_scheduled, interview_date, comments) ==
    IF candidate_id \notin DOMAIN cands THEN cands
    ELSE [cands EXCEPT ![candidate_id] =
            [@ EXCEPT
               !.contacted = IF contacted # None THEN contacted[1] ELSE @,
               !.interested = IF interested # None THEN interested ELSE @,
               !.interview_scheduled =
                   IF interview_scheduled # None THEN interview_scheduled[1] ELSE @,
               !.comments = IF comments # None THEN comments ELSE @]]

\* An update that would write comments whether or not a value is given.
update_candidate_status_comments_always(cands, candidate_id, contacted, interested, interview_scheduled, interview_date, comments) ==
    IF candidate_id \notin DOMAIN cands THEN cands
    ELSE [cands EXCEPT ![candidate_id] =
            [@ EXCEPT
               !.contacted = IF contacted # None THEN contacted[1] ELSE @,
               !.interested = IF interested # None THEN interested ELSE @,
               !.interview_scheduled =
                   IF interview_scheduled # None THEN interview_scheduled[1] ELSE @,
               !.interview_date = IF interview_date # None THEN interview_date ELSE @,
               !.comments = comments]]

update_candidate_status(cands, candidate_id, contacted, interested, interview_scheduled, interview_date, comments) ==
    IF candidate_id \notin DOMAIN cands THEN cands
    ELSE [cands EXCEPT ![candidate_id] =
            [@ EXCEPT
               !.contacted = IF contacted # None THEN contacted[1] ELSE @,
               !.interested = IF interested # None THEN interested ELSE @,
               !.interview_scheduled =
                   IF interview_scheduled # None THEN interview_scheduled[1] ELSE @,
               !.interview_date = IF interview_date # None THEN interview_date ELSE @,
               !.comments = IF comments # None THEN comments ELSE @]]

CallLog(candidate_id, script_used, call_status, interested, ai_tool_used, notes) ==
    [candidate_id |-> candidate_id, script_used |-> script_used,
     call_status |-> call_status, interested |-> interested,
     ai_tool_used |-> ai_tool_used, notes |-> notes]

\* A log_call that would amend the candidate's last record where it has one.
log_call_amending(cands, logs, candidate_id, script_used, call_status, interested, ai_tool_used, notes) ==
    [call_logs |->
        IF logs # << >> /\ logs[Len(logs)].candidate_id = candidate_id
        THEN [logs EXCEPT ![Len(logs)] = CallLog(candidate_id, script_used, call_status,
                                                 interested, ai_tool_used, notes)]
        ELSE Append(logs, CallLog(candidate_id, script_used, call_status,
                                  interested, ai_tool_used, notes)),
     candidates |->
        IF interested # None /\ candidate_id \in DOMAIN cands
        THEN [cands EXCEPT ![candidate_id] =
                [@ EXCEPT !.contacted = TRUE, !.interested = interested]]
        ELSE cands]

\* A log_call that would drop a record equal to the last one logged.
log_call_dedup(cands, logs, candidate_id, script_used, call_status, interested, ai_tool_used, notes) ==
    [call_logs |->
        IF logs # << >> /\ logs[Len(logs)] = CallLog(candidate_id, script_used, call_status,
                                                      interested, ai_tool_used, notes)
        THEN logs
        ELSE Append(logs, CallLog(candidate_id, script_used, call_status,
                                  interested, ai_tool_used, notes)),
     candidates |->
        IF interested # None /\ candidate_id \in DOMAIN cands
        THEN [cands EXCEPT ![candidate_id] =
                [@ EXCEPT !.contacted = TRUE, !.interested = interested]]
        ELSE cands]

\* A log_call that would rewrite the table rather than add to it.
log_call_rewriting(cands, logs, candidate_id, script_used, call_status, interested, ai_tool_used, notes) ==
    [call_logs |-> <<CallLog(candidate_id, script_used, call_status,
                             interested, ai_tool_used, notes)>>,
     candidates |-> cands]

log_call(cands, logs, candidate_id, script_used, call_status, interested, ai_tool_used, notes) ==
    [call_logs |-> Append(logs, CallLog(candidate_id, script_used, call_status,
                                        interested, ai_tool_used, notes)),
     candidates |->
        IF interested # None /\ candidate_id \in DOMAIN cands
        THEN [cands EXCEPT ![candidate_id] =
                [@ EXCEPT !.contacted = TRUE, !.interested = interested]]
        ELSE cands]

(***************************************************************************)
(* AIIntegration.trigger_automated_calls: one pass of the loop body for    *)
(* candidate_id, given what the network answers (reply) and where the      *)
(* storage layer fails (fault).  The outcome says how the pass ends:       *)
(* "skip" (continue), "logged" (log_call done, result appended) or         *)
(* "exception" (an exception reaches the except clause).                   *)
(***************************************************************************)
BatchFaults == {"none", "query", "commit"}

Pass(kind, exc, posts, script, call_status, response) ==
    [kind |-> kind, exc |-> exc, posts |-> posts, script |-> script,
     call_status |-> call_status, response |-> response]

DispatchTo(tool_lower, custom_webhook, candidate_id, script, reply) ==
    IF tool_lower = "n8n" THEN Some(send_to_n8n(candidate_id, script, reply))
    ELSE IF tool_lower = "make" THEN Some(send_to_make(candidate_id, script, reply))
    ELSE IF tool_lower = "custom" /\ custom_webhook # None /\ custom_webhook # Some("")
    THEN Some(send_to_webhook(custom_webhook[1], candidate_id, script, reply))
    ELSE None

Dispatch(ai_tool, custom_webhook, candidate_id, script, reply) ==
    DispatchTo(Lower(ai_tool), custom_webhook, candidate_id, script, reply)

\* 'sent' if 'error' not in response else 'failed'
CallStatusOf(response) == IF "error" \notin response.keys THEN "sent" ELSE "failed"

\* Lines 269 to 283: the call status, log_call and the result, on what the
\* dispatcher gave.
AfterDispatch(sent, script, fault) ==
    IF sent = None THEN Pass("skip", "", << >>, "", "", None)
    ELSE IF sent[1].exc # None
    THEN Pass("exception", sent[1].exc[1], sent[1].posts, script, "", None)
    ELSE IF sent[1].value[1].type # "dict"
    THEN Pass("exception", "TypeError", sent[1].posts, script, "", None)
    ELSE IF fault = "commit"
    THEN Pass("exception", "OperationalError", sent[1].posts, script, "", None)
    ELSE Pass("logged", "", sent[1].posts, script,
              CallStatusOf(sent[1].value[1]), sent[1].value)

\* Lines 255 to 267: the script, then the dispatch; an exception that leaves
\* format_call_script reaches the except clause before anything is sent.
FormatAndDispatch(b, candidate_id, formatted, reply, fault) ==
    IF formatted.exc # ""
    THEN Pass("exception", formatted.exc, << >>, "", "", None)
    ELSE AfterDispatch(Dispatch(b.ai_tool, b.custom_webhook, candidate_id,
                                formatted.script, reply),
                       formatted.script, fault)

LoopBody(b, candidate_id, reply, fault) ==
    IF fault = "query" THEN Pass("exception", "OperationalError", << >>, "", "", None)
    ELSE IF candidate_id \notin DOMAIN candidates
    THEN Pass("skip", "", << >>, "", "", None)
    ELSE FormatAndDispatch(b, candidate_id,
             format_call_script([id |-> candidate_id,
                                 name |-> candidates[candidate_id].name,
                                 experience_years |->
                                     candidates[candidate_id].experience_years],
                                JobData, b.custom_script),
             reply, fault)

\* An except clause that would name the storage layer's exceptions only.
BatchCatches_storage_only(exc) == exc = "OperationalError"

\* except Exception as e: every exception of the loop body is caught.
BatchCatches(exc) == TRUE

ResultEntry(candidate_id, status, response, error) ==
    [candidate_id |-> candidate_id, status |-> status, response |-> response,
     error |-> error]

(***************************************************************************)
(* AIIntegration.process_webhook_response on payload webhook_data, given   *)
(* where the storage layer fails.  The outcome is the dict returned (or    *)
(* the exception that leaves the method) and the tables as the call        *)
(* leaves them.  A payload that is no dict has is_dict FALSE: .get on it   *)
(* raises AttributeError, inside the try.                                  *)
(***************************************************************************)
CallbackFaults == {"none", "update_query", "update_commit", "log_query", "log_commit"}

CbOutcome(result, exc, cands, logs) ==
    [result |-> result, exc |-> exc, candidates |-> cands, call_logs |-> logs]

\* except Exception as e: every exception of the method body is caught.
CallbackCatches(exc) == TRUE

\* if not candidate_id: None and 0 are falsy.
IdMissing(candidate_id) == candidate_id = None \/ candidate_id = Some(0)

\* call_status or 'completed'
ReportedStatus(call_status) ==
    IF call_status = None \/ call_status = Some("") THEN "completed" ELSE call_status[1]

\* return {'status': 'success', 'candidate_id': candidate_id}, once log_call is done.
Logged(logged) == CbOutcome("success", "", logged.candidates, logged.call_logs)

\* Lines 314 to 333: update_candidate_status, then log_call, each with its own
\* commit; updated is the candidates table as update_candidate_status commits it.
Reconcile(webhook_data, candidate_id, updated, fault) ==
    IF fault = "update_query"
    THEN CbOutcome("", "OperationalError", candidates, call_logs)
    ELSE IF fault = "update_commit" /\ candidate_id \in DOMAIN candidates
    THEN CbOutcome("", "OperationalError", candidates, call_logs)
    ELSE IF fault = "log_query" /\ webhook_data.interested # None
    THEN CbOutcome("", "OperationalError", updated, call_logs)
    ELSE IF fault = "log_commit"
    THEN CbOutcome("", "OperationalError", updated, call_logs)
    ELSE Logged(log_call(updated, call_logs, candidate_id, "",
                         ReportedStatus(webhook_data.call_status),
                         webhook_data.interested, webhook_data.ai_tool,
                         webhook_data.response))

\* A body that would take a payload without candidate_id as naming candidate 1.
CallbackBody_default_id(webhook_data, fault) ==
    IF ~webhook_data.is_dict
    THEN CbOutcome("", "AttributeError", candidates, call_logs)
    ELSE IF webhook_data.candidate_id = None
    THEN Reconcile(webhook_data, 1,
                   update_candidate_status(candidates, 1, Some(TRUE),
                       webhook_data.interested, None, None, webhook_data.response),
                   fault)
    ELSE Reconcile(webhook_data, webhook_data.candidate_id[1],
                   update_candidate_status(candidates, webhook_data.candidate_id[1],
                       Some(TRUE), webhook_data.interested, None, None,
                       webhook_data.response),
                   fault)

CallbackBody(webhook_data, fault) ==
    IF ~webhook_data.is_dict
    THEN CbOutcome("", "AttributeError", candidates, call_logs)
    ELSE IF IdMissing(webhook_data.candidate_id)
    THEN CbOutcome("candidate_id is required", "", candidates, call_logs)
    ELSE Reconcile(webhook_data, webhook_data.candidate_id[1],
                   update_candidate_status(candidates, webhook_data.candidate_id[1],
                       Some(TRUE), webhook_data.interested, None, None,
                       webhook_data.response),
                   fault)

\* What the caller gets, with the tables as the call leaves them: result is
\* "success" or "error" (a dict with key 'error', whose message is error), or
\* "raised" when an exception leaves the method.
CbReturn(result, error, cands, logs) ==
    [result |-> result, error |-> error, candidates |-> cands, call_logs |-> logs]

Respond(o) ==
    IF o.exc = ""
    THEN (IF o.result = "success"
          THEN CbReturn("success", "", o.candidates, o.call_logs)
          ELSE CbReturn("error", o.result, o.candidates, o.call_logs))
    ELSE IF CallbackCatches(o.exc)
    THEN CbReturn("error", o.exc, o.candidates, o.call_logs)
    ELSE CbReturn("raised", o.exc, o.candidates, o.call_logs)

process_webhook_response(webhook_data, fault) == Respond(CallbackBody(webhook_data, fault))

(***************************************************************************)
(* The state after construction, and the inputs.                           *)
(***************************************************************************)
MaxBatchLen == 2
MaxCallbacks == 1
MaxRedeliveries == 1
MaxTrackerOps == 1

CandidateIds == {1, 2}
BatchIds == {1, 2, 3}

\* A row as add_candidate stores it; the candidates of the batch and callback
\* runs belong to job search 1.
Row(name, experience_years) ==
    [job_search_id |-> 1, name |-> name, experience_years |-> experience_years,
     contacted |-> FALSE, interested |-> None, interview_scheduled |-> FALSE,
     interview_date |-> None, comments |-> Some("")]

InitialCandidates ==
    [id \in CandidateIds |-> IF id = 1 THEN Row("John Doe", "3.5")
                             ELSE Row("Jane Smith", "4.0")]

\* The database when the behaviour starts: as scraped, or as process_webhook_response
\* left it after an earlier callback for candidate 2 (its update, then its log_call).
Histories ==
    {[candidates |-> InitialCandidates, call_logs |-> << >>],
     log_call(update_candidate_status(InitialCandidates, 2, Some(TRUE), Some(TRUE),
                                      None, None, Some("Very interested")),
              << >>, 2, "", "completed", Some(TRUE), Some("n8n"),
              Some("Very interested"))}

\* The (ai_tool, custom_webhook) arguments: a webhook is given with tool custom only.
BatchTargets ==
    {<<"n8n", None>>, <<"N8N", None>>, <<"make", None>>, <<"sms", None>>,
     <<"custom", None>>,
     <<"custom", Some("https://hooks.example-automation.com/abc")>>,
     <<"custom", Some("http://127.0.0.1:9000/hook")>>}

\* The custom_script argument: none, a template with a field the formatter has
\* no argument for, a template with a positional field.
CustomScripts == {None, Some(UnknownFieldTemplate), Some(PositionalTemplate)}

\* The calls of trigger_automated_calls: every target with the default script,
\* and the custom scripts with tool n8n.
BatchCalls ==
    {c \in BatchTargets \X CustomScripts : c[2] = None \/ c[1] = <<"n8n", None>>}

BatchInputs == UNION {[1..n -> BatchIds] : n \in 0..MaxBatchLen}

\* last is what the last pass of the loop did: how it ended, with which exception,
\* and the POSTs it issued.
LastPass(kind, exc, posts) == [kind |-> kind, exc |-> exc, posts |-> posts]

\* run counts the calls of trigger_automated_calls.
NoBatch == [candidate_ids |-> << >>, i |-> 1, ai_tool |-> "", custom_script |-> None,
            custom_webhook |-> None, results |-> << >>, last |-> LastPass("", "", << >>),
            run |-> 0]

Payload(candidate_id, call_status, interested, response, secret) ==
    [is_dict |-> TRUE, candidate_id |-> candidate_id, call_status |-> call_status,
     interested |-> interested, response |-> response, ai_tool |-> Some("n8n"),
     secret |-> secret]

NotADict == [Payload(None, None, None, None, None) EXCEPT !.is_dict = FALSE]

Payloads ==
    {Payload(c, st, i, r, sec) :
        c \in {None, Some(2), Some(3)}, st \in {None, Some("no-answer")},
        i \in {None, Some(TRUE), Some(FALSE)}, r \in {None, Some("Very interested")},
        sec \in {None, Some("s3cret"), Some("guess")}}
    \cup {NotADict}

\* The configurations: config.py as shipped with no environment set (the first),
\* and operator configurations.  Each dispatcher reads one name only, and every
\* value of every name occurs.
Configurations ==
    {[allow |-> "undefined", n8n |-> "", make |-> "", secret |-> ""],
     [allow |-> "undefined", n8n |-> "https://n8n.example.com/webhook/calls",
      make |-> "https://hook.make.example/abc", secret |-> "s3cret"],
     [allow |-> "False", n8n |-> "https://n8n.example.com/webhook/calls",
      make |-> "", secret |-> "s3cret"],
     [allow |-> "True", n8n |-> "", make |-> "https://hook.make.example/abc",
      secret |-> ""]}

\* Every configuration starts on the database as scraped; the database with the
\* earlier callback is started under the configuration that sets the flag False.
Starts ==
    {st \in Configurations \X Histories :
        st[2].call_logs = << >> \/ st[1].allow = "False"}

Init ==
    /\ \E st \in Starts :
          /\ ALLOW_LOCAL_WEBHOOKS = st[1].allow
          /\ N8N_WEBHOOK_URL = st[1].n8n
          /\ MAKE_WEBHOOK_URL = st[1].make
          /\ WEBHOOK_SECRET = st[1].secret
          /\ candidates = st[2].candidates
          /\ call_logs = st[2].call_logs
    /\ pc = "idle"
    /\ batch = NoBatch
    /\ http_posts = << >>
    /\ cb_count = 0
    /\ cb_last = None
    /\ tr_count = 0
    /\ tr_last = None
    /\ v_url = ""
    /\ v_result = "unused"
    /\ f_args = None
    /\ f_script = None
    /\ cc = << >>

config == <<ALLOW_LOCAL_WEBHOOKS, N8N_WEBHOOK_URL, MAKE_WEBHOOK_URL, WEBHOOK_SECRET>>
validator_vars == <<v_url, v_result>>
tracker_vars == <<tr_count, tr_last>>
formatter_vars == <<f_args, f_script>>
handler_vars == <<cc>>

(***************************************************************************)
(* trigger_automated_calls as a request in progress.                       *)
(***************************************************************************)
StartBatch ==
    /\ pc = "idle"
    /\ cb_count = 0
    /\ tr_count = 0
    /\ \E ids \in BatchInputs, c \in BatchCalls :
          batch' = [candidate_ids |-> ids, i |-> 1, ai_tool |-> c[1][1],
                    custom_script |-> c[2], custom_webhook |-> c[1][2],
                    results |-> << >>, last |-> LastPass("", "", << >>),
                    run |-> batch.run + 1]
    /\ pc' = "loop"
    /\ UNCHANGED <<config, candidates, call_logs, http_posts, cb_count, cb_last,
                   validator_vars, formatter_vars, handler_vars, tracker_vars>>

Iterate ==
    /\ pc = "loop"
    /\ batch.i <= Len(batch.candidate_ids)
    /\ \E reply \in NetReplies, fault \in BatchFaults :
      \E pass \in {LoopBody(batch, batch.candidate_ids[batch.i], reply, fault)} :
        LET candidate_id == batch.candidate_ids[batch.i]
            logged == log_call(candidates, call_logs, candidate_id, pass.script,
                               pass.call_status, None, Some(batch.ai_tool),
                               Some(pass.response[1].repr))
        IN  /\ http_posts' = http_posts \o pass.posts
            /\ IF pass.kind = "logged"
               THEN /\ call_logs' = logged.call_logs
                    /\ candidates' = logged.candidates
                    /\ batch' = [batch EXCEPT
                                   !.i = @ + 1,
                                   !.last = LastPass(pass.kind, pass.exc, pass.posts),
                                   !.results = Append(@, ResultEntry(candidate_id,
                                        pass.call_status, pass.response, None))]
                    /\ pc' = pc
               ELSE IF pass.kind = "skip"
               THEN /\ batch' = [batch EXCEPT !.i = @ + 1, !.last = LastPass(pass.kind, pass.exc, pass.posts)]
                    /\ UNCHANGED <<call_logs, candidates, pc>>
               ELSE IF BatchCatches(pass.exc)
               THEN /\ batch' = [batch EXCEPT
                                   !.i = @ + 1,
                                   !.last = LastPass(pass.kind, pass.exc, pass.posts),
                                   !.results = Append(@, ResultEntry(candidate_id,
                                        "error", None, Some(pass.exc)))]
                    /\ UNCHANGED <<call_logs, candidates, pc>>
               ELSE /\ pc' = "raised"
                    /\ batch' = [batch EXCEPT !.last = LastPass(pass.kind, pass.exc, pass.posts)]
                    /\ UNCHANGED <<call_logs, candidates>>
    /\ UNCHANGED <<config, cb_count, cb_last, validator_vars, formatter_vars, handler_vars, tracker_vars>>

ReturnBatch ==
    /\ pc = "loop"
    /\ batch.i > Len(batch.candidate_ids)
    /\ pc' = "returned"
    /\ UNCHANGED <<config, candidates, call_logs, batch, http_posts, cb_count,
                   cb_last, validator_vars, formatter_vars, handler_vars, tracker_vars>>

(***************************************************************************)
(* The callback.  webhook_callback is the route /api/webhook/callback:     *)
(* the secret check, then process_webhook_response, all inside the         *)
(* route's own try.  direct_callback is a caller that hands the payload    *)
(* to process_webhook_response itself, as the tests and example_usage.py   *)
(* do.  cb_last keeps the payload, the tables before the call, and how the *)
(* call ended: "success", "error", "unauthorized", or "raised" when an     *)
(* exception left process_webhook_response.                                *)
(***************************************************************************)
\* before: the two tables as the handler found them.
CbRecord(via, data, result, error) ==
    Some([via |-> via, data |-> data, result |-> result, error |-> error,
          before |-> [candidates |-> candidates, call_logs |-> call_logs]])

\* A route that would refuse a secret only when the payload carries one.
route_callback_absent_passes(data, fault) ==
    IF WEBHOOK_SECRET # "" /\ ~data.is_dict
    THEN CbReturn("error", "AttributeError", candidates, call_logs)
    ELSE IF WEBHOOK_SECRET # "" /\ data.secret \notin {None, Some(WEBHOOK_SECRET)}
    THEN CbReturn("unauthorized", "Invalid webhook secret", candidates, call_logs)
    ELSE process_webhook_response(data, fault)

\* The route: the secret check of line 277, then process_webhook_response.
\* .get on a payload that is no dict raises inside the route's try (a 500).
route_callback(data, fault) ==
    IF WEBHOOK_SECRET # "" /\ ~data.is_dict
    THEN CbReturn("error", "AttributeError", candidates, call_logs)
    ELSE IF WEBHOOK_SECRET # "" /\ data.secret # Some(WEBHOOK_SECRET)
    THEN CbReturn("unauthorized", "Invalid webhook secret", candidates, call_logs)
    ELSE process_webhook_response(data, fault)

Handle(via, data, fault) ==
    IF via = "route" THEN route_callback(data, fault)
    ELSE process_webhook_response(data, fault)

\* One delivery of payload data, handled to its end.
Deliver(via, data, fault) ==
    /\ \E o \in {Handle(via, data, fault)} :
          /\ cb_last' = CbRecord(via, data, o.result, o.error)
          /\ candidates' = o.candidates
          /\ call_logs' = o.call_logs
    /\ cb_count' = cb_count + 1
    /\ UNCHANGED <<config, pc, batch, http_posts, validator_vars, formatter_vars, handler_vars, tracker_vars>>

webhook_callback ==
    /\ pc = "idle"
    /\ tr_count = 0
    /\ cb_count < MaxCallbacks
    /\ \E data \in Payloads, fault \in CallbackFaults : Deliver("route", data, fault)

direct_callback ==
    /\ pc = "idle"
    /\ tr_count = 0
    /\ cb_count < MaxCallbacks
    /\ \E data \in Payloads, fault \in CallbackFaults : Deliver("direct", data, fault)

\* The AI tool delivers the payload of the last callback once more.
redeliver_callback ==
    /\ pc = "idle"
    /\ cb_last # None
    /\ cb_count < MaxCallbacks + MaxRedeliveries
    /\ \E fault \in CallbackFaults : Deliver(cb_last[1].via, cb_last[1].data, fault)

(***************************************************************************)
(* The DataManager operations as callers outside AIIntegration reach them: *)
(* update_candidate_status through the route PUT                           *)
(* /api/candidates/<id>/status, and log_call called on the DataManager     *)
(* itself.  tr_last keeps the arguments, the candidates table before the   *)
(* call, and what the caller gets.                                         *)
(***************************************************************************)
TrackerFaults == {"none", "query", "commit"}

UpdateBodies ==
    [contacted : {None, Some(TRUE), Some(FALSE)},
     interested : {None, Some(TRUE), Some(FALSE)},
     interview_scheduled : {None, Some(TRUE)},
     interview_date : {None, Some("2026-12-01T10:00:00")},
     comments : {None, Some("Call back on Monday")}]

TrRecord(op, candidate_id, args, before, result) ==
    Some([op |-> op, candidate_id |-> candidate_id, args |-> args, before |-> before,
          result |-> result])

\* api.update_candidate_status: the method returns None whether or not the
\* candidate was found, and the route answers 'success'; an exception of the
\* storage layer is caught by the route and answered with an error (a 500).
\* interview_date comes from the JSON body as a string, which the DateTime
\* column of the default SQLite database refuses at commit (fault "date_type";
\* other databases take it).
api_update_candidate_status ==
    /\ pc = "idle"
    /\ cb_count = 0
    /\ tr_count < MaxTrackerOps
    /\ \E candidate_id \in BatchIds, data \in UpdateBodies,
          fault \in TrackerFaults \cup {"date_type"} :
          IF \/ fault = "query"
             \/ fault = "commit" /\ candidate_id \in DOMAIN candidates
             \/ /\ fault = "date_type"
                /\ candidate_id \in DOMAIN candidates
                /\ data.interview_date # None
          THEN /\ tr_last' = TrRecord("api_update", candidate_id, data, candidates, "error")
               /\ candidates' = candidates
          ELSE /\ tr_last' = TrRecord("api_update", candidate_id, data, candidates, "success")
               /\ candidates' = update_candidate_status(candidates, candidate_id,
                                    data.contacted, data.interested,
                                    data.interview_scheduled, data.interview_date,
                                    data.comments)
    /\ tr_count' = tr_count + 1
    /\ UNCHANGED <<config, call_logs, pc, batch, http_posts, cb_count, cb_last,
                   validator_vars, formatter_vars, handler_vars>>

\* dm.update_candidate_status(...) called on the DataManager with values of the
\* declared types (cli.py, example_usage.py, the tests): it returns None, or an
\* exception of the storage layer reaches the caller.
dm_update_candidate_status ==
    /\ pc = "idle"
    /\ cb_count = 0
    /\ tr_count < MaxTrackerOps
    /\ \E candidate_id \in BatchIds, a \in UpdateBodies, fault \in TrackerFaults :
          IF fault = "query" \/ (fault = "commit" /\ candidate_id \in DOMAIN candidates)
          THEN /\ tr_last' = TrRecord("update", candidate_id, a, candidates, "raised")
               /\ candidates' = candidates
          ELSE /\ tr_last' = TrRecord("update", candidate_id, a, candidates, "returned")
               /\ candidates' = update_candidate_status(candidates, candidate_id,
                                    a.contacted, a.interested, a.interview_scheduled,
                                    a.interview_date, a.comments)
    /\ tr_count' = tr_count + 1
    /\ UNCHANGED <<config, call_logs, pc, batch, http_posts, cb_count, cb_last,
                   validator_vars, formatter_vars, handler_vars>>

LogCallArgs ==
    [script_used : {"Test script"}, call_status : {"completed"},
     interested : {None, Some(TRUE), Some(FALSE)}, ai_tool_used : {Some("n8n")},
     notes : {None}]

\* dm.log_call(...) called on the DataManager: an exception of the storage
\* layer reaches the caller.
dm_log_call ==
    /\ pc = "idle"
    /\ cb_count = 0
    /\ tr_count < MaxTrackerOps
    /\ \E candidate_id \in BatchIds, a \in LogCallArgs, fault \in TrackerFaults :
          IF (fault = "query" /\ a.interested # None) \/ fault = "commit"
          THEN /\ tr_last' = TrRecord("log_call", candidate_id, a, candidates, "raised")
               /\ UNCHANGED <<candidates, call_logs>>
          ELSE \E logged \in {log_call(candidates, call_logs, candidate_id,
                                       a.script_used, a.call_status, a.interested,
                                       a.ai_tool_used, a.notes)} :
               /\ tr_last' = TrRecord("log_call", candidate_id, a, candidates, "returned")
               /\ candidates' = logged.candidates
               /\ call_logs' = logged.call_logs
    /\ tr_count' = tr_count + 1
    /\ UNCHANGED <<config, pc, batch, http_posts, cb_count, cb_last, validator_vars, formatter_vars, handler_vars>>

Next == StartBatch \/ Iterate \/ ReturnBatch \/ webhook_callback \/ direct_callback
        \/ redeliver_callback \/ api_update_candidate_status
        \/ dm_update_candidate_status \/ dm_log_call

Spec == Init /\ [][Next]_vars

(***************************************************************************)
(* The trigger-calls command of cli.py, run more than once: each run       *)
(* selects the candidates of a job search that are not contacted yet and   *)
(* hands them to trigger_automated_calls with the default script.          *)
(***************************************************************************)
MaxRuns == 2

JobSearchIds == {1, 2}

\* The elements of a set of ids as a list, in the order of the primary key.
RECURSIVE InIdOrder(_)
InIdOrder(ids) ==
    IF ids = {} THEN << >>
    ELSE LET first == CHOOSE x \in ids : \A y \in ids : x <= y
         IN  <<first>> \o InIdOrder(ids \ {first})

\* Candidate.contacted.is_(True) or .is_(False), as contacted_only says.
get_candidates_for_calling(cands, job_search_id, contacted_only, interested_only) ==
    InIdOrder({id \in DOMAIN cands :
                  /\ cands[id].job_search_id = job_search_id
                  /\ cands[id].contacted = contacted_only
                  /\ interested_only => cands[id].interested = Some(TRUE)})

\* --ai-tool is one of n8n, make, custom; --custom-webhook is optional.
CliTargets ==
    {<<"n8n", None>>, <<"make", None>>, <<"custom", None>>,
     <<"custom", Some("https://hooks.example-automation.com/abc")>>}

\* The command up to the call of trigger_automated_calls; with no candidate
\* selected it returns at once.
trigger_calls ==
    /\ pc \in {"idle", "returned"}
    /\ batch.run < MaxRuns
    /\ \E job_search_id \in JobSearchIds, target \in CliTargets :
        \E ids \in {get_candidates_for_calling(candidates, job_search_id, FALSE, FALSE)} :
          IF ids = << >>
          THEN /\ batch' = [NoBatch EXCEPT !.run = batch.run + 1]
               /\ pc' = "idle"
          ELSE /\ batch' = [candidate_ids |-> ids, i |-> 1, ai_tool |-> target[1],
                            custom_script |-> None, custom_webhook |-> target[2],
                            results |-> << >>, last |-> LastPass("", "", << >>),
                            run |-> batch.run + 1]
               /\ pc' = "loop"
    /\ UNCHANGED <<config, candidates, call_logs, http_posts, cb_count, cb_last,
                   validator_vars, formatter_vars, handler_vars, tracker_vars>>

\* The runs start on the database as scraped, under the configuration that
\* defines the flag and the n8n URL.
InitRerun ==
    /\ Init
    /\ ALLOW_LOCAL_WEBHOOKS = "False"
    /\ call_logs = << >>

NextRerun == trigger_calls \/ Iterate \/ ReturnBatch

SpecRerun == InitRerun /\ [][NextRerun]_vars

(***************************************************************************)
(* Callbacks handled at the same time.  The route builds an AIIntegration  *)
(* of its own, with a DataManager and a session of its own, for every      *)
(* request, and the server handles requests in threads, so the two         *)
(* DataManager calls of one process_webhook_response interleave with those *)
(* of another.  Each DataManager call is one step: the transaction it      *)
(* commits is atomic at the storage layer.  cc holds, for each request,   *)
(* its payload, the call it is to make next and its result.                *)
(***************************************************************************)
Handlers == {1, 2}

\* Two callbacks for candidate 2, as two calls of the AI tool report them.
ConcurrentPayloads ==
    {Payload(Some(2), None, i, r, None) :
        i \in {None, Some(TRUE), Some(FALSE)},
        r \in {None, Some("Very interested"), Some("Not now")}}

InitConcurrent ==
    /\ ALLOW_LOCAL_WEBHOOKS = "False"
    /\ N8N_WEBHOOK_URL = ""
    /\ MAKE_WEBHOOK_URL = ""
    /\ WEBHOOK_SECRET = ""
    /\ candidates = InitialCandidates
    /\ call_logs = << >>
    /\ pc = "idle"
    /\ batch = NoBatch
    /\ http_posts = << >>
    /\ cb_count = 0
    /\ cb_last = None
    /\ tr_count = 0
    /\ tr_last = None
    /\ v_url = ""
    /\ v_result = "unused"
    /\ f_args = None
    /\ f_script = None
    /\ cc \in [Handlers -> {[at |-> "update", data |-> d, result |-> ""] :
                                d \in ConcurrentPayloads}]

\* Lines 314 to 319 in request h: update_candidate_status and its commit; a
\* failure of the storage layer ends the request with an error.
handler_update ==
    \E h \in Handlers :
        /\ cc[h].at = "update"
        /\ \E fault \in {"none", "update_commit"} :
              IF fault = "none"
              THEN /\ candidates' = update_candidate_status(candidates,
                                        cc[h].data.candidate_id[1], Some(TRUE),
                                        cc[h].data.interested, None, None,
                                        cc[h].data.response)
                   /\ cc' = [cc EXCEPT ![h].at = "log"]
              ELSE /\ candidates' = candidates
                   /\ cc' = [cc EXCEPT ![h].at = "done", ![h].result = "error"]
        /\ UNCHANGED <<config, call_logs, pc, batch, http_posts, cb_count, cb_last,
                       validator_vars, formatter_vars, tracker_vars>>

\* Lines 322 to 333 in request h: log_call and its commit, then the result.
handler_log ==
    \E h \in Handlers :
        /\ cc[h].at = "log"
        /\ \E fault \in {"none", "log_commit"} :
              IF fault = "none"
              THEN \E logged \in {log_call(candidates, call_logs,
                                            cc[h].data.candidate_id[1], "",
                                            ReportedStatus(cc[h].data.call_status),
                                            cc[h].data.interested, cc[h].data.ai_tool,
                                            cc[h].data.response)} :
                      /\ candidates' = logged.candidates
                      /\ call_logs' = logged.call_logs
                      /\ cc' = [cc EXCEPT ![h].at = "done", ![h].result = "success"]
              ELSE /\ UNCHANGED <<candidates, call_logs>>
                   /\ cc' = [cc EXCEPT ![h].at = "done", ![h].result = "error"]
        /\ UNCHANGED <<config, pc, batch, http_posts, cb_count, cb_last,
                       validator_vars, formatter_vars, tracker_vars>>

NextConcurrent == handler_update \/ handler_log

SpecConcurrent == InitConcurrent /\ [][NextConcurrent]_vars

(***************************************************************************)
(* The tracker as a recruiter uses it: candidates are added to job         *)
(* searches, their status is updated with the update command, and the      *)
(* statistics of a job search are read.  The table starts empty; ids are   *)
(* given in order of insertion.                                            *)
(***************************************************************************)
MaxCandidates == 3
MaxUpdates == 2

\* A get_statistics that would count as not interested every candidate who is
\* not interested True (`not c.interested`).
get_statistics_not_true(cands, job_search_id) ==
    LET all_candidates ==
            {id \in DOMAIN cands :
                job_search_id \in {None, Some(0)}
                    \/ cands[id].job_search_id = job_search_id[1]}
    IN  [total_candidates |-> Cardinality(all_candidates),
         contacted |-> Cardinality({id \in all_candidates : cands[id].contacted}),
         interested |->
             Cardinality({id \in all_candidates : cands[id].interested = Some(TRUE)}),
         not_interested |->
             Cardinality({id \in all_candidates : cands[id].interested # Some(TRUE)}),
         interview_scheduled |->
             Cardinality({id \in all_candidates : cands[id].interview_scheduled}),
         pending_contact |->
             Cardinality({id \in all_candidates : ~cands[id].contacted})]

\* DataManager.get_statistics: `if job_search_id:` filters unless the id is None
\* or 0; `if c.interested` counts True, `c.interested is False` counts False.
get_statistics(cands, job_search_id) ==
    LET all_candidates ==
            {id \in DOMAIN cands :
                job_search_id \in {None, Some(0)}
                    \/ cands[id].job_search_id = job_search_id[1]}
    IN  [total_candidates |-> Cardinality(all_candidates),
         contacted |-> Cardinality({id \in all_candidates : cands[id].contacted}),
         interested |->
             Cardinality({id \in all_candidates : cands[id].interested = Some(TRUE)}),
         not_interested |->
             Cardinality({id \in all_candidates : cands[id].interested = Some(FALSE)}),
         interview_scheduled |->
             Cardinality({id \in all_candidates : cands[id].interview_scheduled}),
         pending_contact |->
             Cardinality({id \in all_candidates : ~cands[id].contacted})]

InitStatistics ==
    /\ ALLOW_LOCAL_WEBHOOKS = "undefined"
    /\ N8N_WEBHOOK_URL = ""
    /\ MAKE_WEBHOOK_URL = ""
    /\ WEBHOOK_SECRET = ""
    /\ candidates = << >>
    /\ call_logs = << >>
    /\ pc = "idle"
    /\ batch = NoBatch
    /\ http_posts = << >>
    /\ cb_count = 0
    /\ cb_last = None
    /\ tr_count = 0
    /\ tr_last = None
    /\ v_url = ""
    /\ v_result = "unused"
    /\ f_args = None
    /\ f_script = None
    /\ cc = << >>

\* dm.add_candidate(job_search_id, {'name': ...}): the new row takes the next id.
dm_add_candidate ==
    /\ Len(candidates) < MaxCandidates
    /\ \E job_search_id \in JobSearchIds :
          candidates' = Append(candidates,
                               [Row("C1", "None") EXCEPT !.job_search_id = job_search_id])
    /\ UNCHANGED <<config, call_logs, pc, batch, http_posts, cb_count, cb_last,
                   validator_vars, formatter_vars, handler_vars, tracker_vars>>

\* The update command of cli.py: update_candidate_status with contacted,
\* interested and comments.
CliUpdates ==
    [contacted : {None, Some(TRUE), Some(FALSE)},
     interested : {None, Some(TRUE), Some(FALSE)},
     interview_scheduled : {None}, interview_date : {None}, comments : {None}]

cli_update ==
    /\ tr_count < MaxUpdates
    /\ \E candidate_id \in 1..MaxCandidates, a \in CliUpdates :
          /\ candidates' = update_candidate_status(candidates, candidate_id, a.contacted,
                               a.interested, a.interview_scheduled, a.interview_date,
                               a.comments)
          /\ tr_last' = TrRecord("update", candidate_id, a, candidates, "returned")
    /\ tr_count' = tr_count + 1
    /\ UNCHANGED <<config, call_logs, pc, batch, http_posts, cb_count, cb_last,
                   validator_vars, formatter_vars, handler_vars>>

\* The stats command of cli.py and the route /api/statistics/<id>: the result
\* of get_statistics on the table as it stands.
cli_stats ==
    /\ \E job_search_id \in {None} \cup {Some(j) : j \in JobSearchIds} :
          tr_last' = TrRecord("get_statistics", job_search_id, << >>, candidates,
                              get_statistics(candidates, job_search_id))
    /\ UNCHANGED <<config, candidates, call_logs, pc, batch, http_posts, cb_count,
                   cb_last, validator_vars, formatter_vars, handler_vars, tr_count>>

NextStatistics == dm_add_candidate \/ cli_update \/ cli_stats

SpecStatistics == InitStatistics /\ [][NextStatistics]_vars

(***************************************************************************)
(* Properties of the validator, checked under SpecValidate.                *)
(***************************************************************************)
Validated == v_result \in {"accepted", "rejected", "raised"}

\* C2: a URL whose hostname matches a loopback, link-local or private IPv4
\* pattern is rejected by the validator when the local-bypass flag is not set,
\* and accepted when it is set.
C2_InternalPatternsFollowFlag ==
    (Validated /\ v_url \in InternalLiteralUrls) =>
        v_result = (IF ALLOW_LOCAL_WEBHOOKS = "True" THEN "accepted" ELSE "rejected")

\* C3: with the bypass disabled, a URL whose hostname is public as text but
\* resolves to an internal address is rejected.
C3_ResolvedInternalRejected ==
    (Validated /\ ALLOW_LOCAL_WEBHOOKS = "False" /\ ResolvesTo(v_url) = "internal")
        => v_result = "rejected"

\* C4: the validator never raises, and with the bypass flag left unconfigured
\* it answers as with the bypass disabled: internal hosts are rejected.
C4_UnconfiguredFlagIsDisabled ==
    Validated =>
        /\ v_result # "raised"
        /\ (ALLOW_LOCAL_WEBHOOKS = "undefined" /\ v_url \in InternalLiteralUrls)
               => v_result = "rejected"

(***************************************************************************)
(* Properties of the batch and of the callback, checked under Spec.        *)
(***************************************************************************)
Exists(candidate_id) == candidate_id \in DOMAIN candidates

Occurrences(seq, P(_)) == Cardinality({k \in 1..Len(seq) : P(seq[k])})

LastResult == batch.results[Len(batch.results)]

\* A pass the storage layer failed in: no handler could have written its record.
StorageFailed(last) == last.exc = "OperationalError"

\* C1: in every dispatch path (n8n, make, custom URL), no POST is issued to a
\* URL the validator has not accepted in that same dispatch call.
C1_EveryPostValidated ==
    \A k \in 1..Len(http_posts) : http_posts[k].validated

\* C5: a batch with a custom URL that fails validation (an internal address
\* with the bypass not enabled) issues no POST, and each existing candidate's
\* result has status 'failed' and carries the validation reason.
C5_InvalidCustomUrlFailsEach ==
    (/\ pc = "returned"
     /\ Lower(batch.ai_tool) = "custom"
     /\ batch.custom_webhook # None
     /\ batch.custom_webhook[1] \in InternalLiteralUrls
     /\ ALLOW_LOCAL_WEBHOOKS # "True")
    => /\ http_posts = << >>
       /\ \A k \in 1..Len(batch.results) :
             batch.results[k].error # Some("OperationalError") =>
                /\ batch.results[k].status = "failed"
                /\ batch.results[k].response # None
                /\ batch.results[k].response[1].repr
                      = "{'error': 'Invalid or unsafe webhook URL'}"

\* C6: whatever tool and target are selected, a returned batch holds exactly
\* one result for each input id that names an existing candidate, and none for
\* an id that names no candidate (but the error result of a lookup that raised).
C6_OneResultPerExistingId ==
    pc = "returned" =>
        /\ \A id \in DOMAIN candidates :
              Occurrences(batch.results, LAMBDA r : r.candidate_id = id)
                  = Occurrences(batch.candidate_ids, LAMBDA c : c = id)
        /\ \A k \in 1..Len(batch.results) :
              \/ Exists(batch.results[k].candidate_id)
              \/ batch.results[k].error = Some("OperationalError")

\* What a pass that failed looks like: an exception reached the except clause,
\* the network refused the POST, or the dispatcher returned an error.
PassFailed(last, results) ==
    \/ last.kind = "exception"
    \/ \E k \in 1..Len(last.posts) : ~Is2xx(last.posts[k].reply)
    \/ /\ last.kind = "logged"
       /\ "error" \in results[Len(results)].response[1].keys

\* C7: a failure while one candidate is processed (lookup, validation, network
\* or unexpected exception) is recorded as an error result for that candidate,
\* leaves the CallLog records and the candidate rows committed before
\* unchanged, and the loop goes on to every later candidate of the list.
C7_FailureIsContained ==
    [][pc = "loop" =>
         /\ pc' \in {"loop", "returned"}
         /\ pc' = "returned" => batch.i = Len(batch.candidate_ids) + 1
         /\ pc' = "loop" => batch'.i = batch.i + 1
         /\ Len(call_logs') >= Len(call_logs)
         /\ SubSeq(call_logs', 1, Len(call_logs)) = call_logs
         /\ candidates' = candidates
         /\ (pc' = "loop" /\ PassFailed(batch'.last, batch'.results)) =>
               /\ Len(batch'.results) = Len(batch.results) + 1
               /\ SubSeq(batch'.results, 1, Len(batch.results)) = batch.results
               /\ batch'.results[Len(batch'.results)].candidate_id
                     = batch.candidate_ids[batch.i]
               /\ batch'.results[Len(batch'.results)].status \in {"failed", "error"}
               /\ batch'.last.kind = "exception" =>
                     batch'.results[Len(batch'.results)].error = Some(batch'.last.exc)
      ]_vars

\* C7 witness: the first candidate's pass ended in an exception, recorded as
\* an error result; the second candidate was then dispatched and logged.
C7_Witness ==
    /\ pc = "returned"
    /\ Len(batch.candidate_ids) = 2
    /\ Len(batch.results) = 2
    /\ batch.results[1].status = "error"
    /\ batch.results[1].error = Some("TypeError")
    /\ batch.results[2].status = "sent"
    /\ Len(call_logs) = 1
    /\ call_logs[1].candidate_id = batch.candidate_ids[2]

\* C8: no fault escapes trigger_automated_calls or process_webhook_response:
\* each returns a result, and an exception never leaves it.
C8_NoFaultEscapes ==
    /\ pc # "raised"
    /\ cb_last # None => cb_last[1].result \in {"success", "error", "unauthorized"}
    /\ pc = "returned" => Len(batch.results) <= Len(batch.candidate_ids)

\* C8 witness: process_webhook_response, called on a payload that is no dict,
\* absorbed the AttributeError and returned an error.
C8_Witness ==
    /\ cb_last # None
    /\ cb_last[1].via = "direct"
    /\ ~cb_last[1].data.is_dict
    /\ cb_last[1].result = "error"

\* C9: for every candidate the batch dispatches (a POST was issued for it),
\* exactly one CallLog is appended, tagged 'sent' if the dispatch result has no
\* error field and 'failed' otherwise, and the result's status equals the
\* CallLog's status.
C9_OneLogPerDispatch ==
    (/\ pc \in {"loop", "returned"}
     /\ batch.last.posts # << >>
     /\ ~StorageFailed(batch.last))
    => /\ batch.last.kind = "logged"
       /\ Len(call_logs) = batch.last.posts[1].logs_before + 1
       /\ call_logs[Len(call_logs)].candidate_id = batch.last.posts[1].candidate_id
       /\ call_logs[Len(call_logs)].call_status
             = (IF batch.last.posts[1].reply \in {"connection_error", "http_500",
                                                  "ok_not_json", "ok_json_dict_error"}
                THEN "failed" ELSE "sent")
       /\ LastResult.status = call_logs[Len(call_logs)].call_status

\* C10: when the webhook answers a POST with a 2xx status, the candidate's
\* result has status 'sent', whatever the body is (empty or any parsed content).
C10_SuccessStatusIsSent ==
    (/\ pc \in {"loop", "returned"}
     /\ batch.last.posts # << >>
     /\ batch.last.posts[1].reply \in {"ok_empty", "ok_json_dict",
                                       "ok_json_dict_error", "ok_json_scalar"}
     /\ ~StorageFailed(batch.last))
    => /\ Len(batch.results) > 0
       /\ LastResult.candidate_id = batch.last.posts[1].candidate_id
       /\ LastResult.status = "sent"

(***************************************************************************)
(* Properties of configuration errors, of the callback and of the          *)
(* tracker operations, checked under Spec.                                 *)
(***************************************************************************)
\* The tool the batch selects has no URL to send to.
NoUrlConfigured ==
    \/ Lower(batch.ai_tool) = "n8n" /\ N8N_WEBHOOK_URL = ""
    \/ Lower(batch.ai_tool) = "make" /\ MAKE_WEBHOOK_URL = ""
    \/ Lower(batch.ai_tool) = "custom" /\ batch.custom_webhook \in {None, Some("")}

\* C11: when the selected tool (n8n, make or custom) has no URL configured, no
\* POST is issued and the result of every existing candidate of the batch
\* reports the error (a pass the storage layer failed in reports that failure).
C11_MissingUrlReported ==
    (pc = "returned" /\ NoUrlConfigured) =>
        /\ http_posts = << >>
        /\ \A k \in 1..Len(batch.candidate_ids) :
              Exists(batch.candidate_ids[k]) =>
                 \E j \in 1..Len(batch.results) :
                    /\ batch.results[j].candidate_id = batch.candidate_ids[k]
                    /\ \/ batch.results[j].error # None
                       \/ /\ batch.results[j].status = "failed"
                          /\ "error" \in batch.results[j].response[1].keys

\* The last callback carried a dict whose secret is absent or is not the
\* configured one, and a secret is configured.
SecretRefused ==
    /\ cb_last # None
    /\ WEBHOOK_SECRET # ""
    /\ cb_last[1].data.is_dict
    /\ cb_last[1].data.secret # Some(WEBHOOK_SECRET)

\* The last callback left both tables as it found them.
CallbackChangedNothing ==
    /\ candidates = cb_last[1].before.candidates
    /\ call_logs = cb_last[1].before.call_logs

Accepted == cb_last # None /\ cb_last[1].result = "success"

\* C13: an accepted callback for an existing candidate sets contacted to true,
\* sets interested and comments to the payload's values when they are present
\* and leaves them when absent, leaves the candidate's other fields and the
\* other candidates alone, and appends exactly one CallLog tagged with the
\* reported status, or 'completed' when none is reported.
C13_AcceptedCallbackApplied ==
    (Accepted /\ Exists(cb_last[1].data.candidate_id[1])) =>
        LET d   == cb_last[1].data
            id  == d.candidate_id[1]
            was == cb_last[1].before.candidates
            log == call_logs[Len(call_logs)]
        IN  /\ candidates[id].contacted = TRUE
            /\ candidates[id].interested
                  = (IF d.interested # None THEN d.interested ELSE was[id].interested)
            /\ candidates[id].comments
                  = (IF d.response # None THEN d.response ELSE was[id].comments)
            /\ candidates[id].interview_scheduled = was[id].interview_scheduled
            /\ candidates[id].interview_date = was[id].interview_date
            /\ \A other \in DOMAIN candidates \ {id} : candidates[other] = was[other]
            /\ Len(call_logs) = Len(cb_last[1].before.call_logs) + 1
            /\ SubSeq(call_logs, 1, Len(call_logs) - 1) = cb_last[1].before.call_logs
            /\ log.candidate_id = id
            /\ log.call_status
                  = (IF d.call_status = None THEN "completed" ELSE d.call_status[1])
            /\ log.interested = d.interested

\* C13 witness: a callback for candidate 2, who was contacted before, reports
\* 'no-answer' with no interested and no response: the earlier answers stay.
C13_Witness ==
    /\ Accepted
    /\ cb_count = 1
    /\ cb_last[1].data.candidate_id = Some(2)
    /\ cb_last[1].data.interested = None
    /\ cb_last[1].data.response = None
    /\ cb_last[1].data.call_status = Some("no-answer")
    /\ candidates[2].contacted
    /\ candidates[2].interested = Some(TRUE)
    /\ candidates[2].comments = Some("Very interested")
    /\ Len(call_logs) = 2
    /\ call_logs[2].call_status = "no-answer"

\* C14: a callback payload without candidate_id (that the secret check let
\* through) yields the validation error, creates no CallLog and changes no
\* candidate field.
C14_MissingIdRejected ==
    (/\ cb_last # None
     /\ cb_last[1].data.is_dict
     /\ cb_last[1].data.candidate_id = None
     /\ cb_last[1].result # "unauthorized")
    => /\ cb_last[1].result = "error"
       /\ cb_last[1].error = "candidate_id is required"
       /\ CallbackChangedNothing

\* C14 witness: the route, its secret matched, was given a payload that
\* reports interest and a response but names no candidate.
C14_Witness ==
    /\ cb_last # None
    /\ cb_last[1].via = "route"
    /\ WEBHOOK_SECRET # ""
    /\ cb_last[1].data.secret = Some(WEBHOOK_SECRET)
    /\ cb_last[1].data.candidate_id = None
    /\ cb_last[1].data.interested = Some(TRUE)
    /\ cb_last[1].data.response # None
    /\ cb_last[1].error = "candidate_id is required"

\* C15: processing the same accepted callback payload a second time appends a
\* second CallLog, equal to the first, and leaves every candidate's status
\* fields as the first processing left them.
C15_SecondDeliveryLogsAgain ==
    [][(/\ Accepted
        /\ cb_count' = cb_count + 1
        /\ cb_last'[1].data = cb_last[1].data
        /\ cb_last'[1].result = "success")
       => /\ candidates' = candidates
          /\ call_logs' = Append(call_logs, call_logs[Len(call_logs)])
      ]_vars

\* C15 witness: the payload for candidate 2 was accepted twice: two equal
\* records close the ledger and the second processing changed no candidate.
C15_Witness ==
    /\ Accepted
    /\ cb_count = 2
    /\ cb_last[1].data.candidate_id = Some(2)
    /\ cb_last[1].data.interested = Some(FALSE)
    /\ cb_last[1].data.response # None
    /\ Len(call_logs) >= 2
    /\ call_logs[Len(call_logs)] = call_logs[Len(call_logs) - 1]
    /\ Len(cb_last[1].before.call_logs) = Len(call_logs) - 1
    /\ cb_last[1].before.candidates = candidates
    /\ candidates[2].interested = Some(FALSE)

\* The last DataManager call from outside was a status update that came back
\* without an error.
Updated ==
    /\ tr_last # None
    /\ tr_last[1].op \in {"update", "api_update"}
    /\ tr_last[1].result \in {"returned", "success"}

\* C16: update_candidate_status on an existing candidate overwrites exactly the
\* fields it is given (contacted, interested, interview_scheduled,
\* interview_date, comments) and leaves every omitted field, and every other
\* candidate, unchanged.
C16_UpdateWritesGivenFields ==
    (Updated /\ tr_last[1].candidate_id \in DOMAIN tr_last[1].before) =>
        LET a   == tr_last[1].args
            id  == tr_last[1].candidate_id
            was == tr_last[1].before
        IN  /\ candidates[id].contacted
                  = (IF a.contacted # None THEN a.contacted[1] ELSE was[id].contacted)
            /\ candidates[id].interested
                  = (IF a.interested # None THEN a.interested ELSE was[id].interested)
            /\ candidates[id].interview_scheduled
                  = (IF a.interview_scheduled # None THEN a.interview_scheduled[1]
                     ELSE was[id].interview_scheduled)
            /\ candidates[id].interview_date
                  = (IF a.interview_date # None THEN a.interview_date
                     ELSE was[id].interview_date)
            /\ candidates[id].comments
                  = (IF a.comments # None THEN a.comments ELSE was[id].comments)
            /\ candidates[id].name = was[id].name
            /\ candidates[id].experience_years = was[id].experience_years
            /\ DOMAIN candidates = DOMAIN was
            /\ \A other \in DOMAIN candidates \ {id} : candidates[other] = was[other]

\* C16 witness: an interview is scheduled for candidate 2, who had answered a
\* callback before: contacted, interested and comments stay as they were.
C16_Witness ==
    /\ Updated
    /\ tr_last[1].op = "update"
    /\ tr_last[1].candidate_id = 2
    /\ tr_last[1].args.contacted = None
    /\ tr_last[1].args.interested = None
    /\ tr_last[1].args.comments = None
    /\ tr_last[1].args.interview_scheduled = Some(TRUE)
    /\ tr_last[1].args.interview_date # None
    /\ candidates[2].interview_scheduled
    /\ candidates[2].interview_date = tr_last[1].args.interview_date
    /\ candidates[2].contacted
    /\ candidates[2].interested = Some(TRUE)
    /\ candidates[2].comments = Some("Very interested")

\* C17: update_candidate_status for a candidate id that does not exist reports
\* the not-found condition to its caller (it does not come back as a
\* successful update does) and writes nothing.
C17_MissingCandidateReported ==
    (/\ tr_last # None
     /\ tr_last[1].op \in {"update", "api_update"}
     /\ tr_last[1].candidate_id \notin DOMAIN tr_last[1].before)
    => /\ tr_last[1].result \notin {"returned", "success"}
       /\ candidates = tr_last[1].before

\* C18: the CallLog ledger is append-only: no step of a batch, a callback or
\* a status update removes or changes a record created earlier, and each
\* logged dispatch and each accepted callback adds one new record.
C18_LedgerAppendOnly ==
    [][/\ Len(call_logs') \in {Len(call_logs), Len(call_logs) + 1}
       /\ SubSeq(call_logs', 1, Len(call_logs)) = call_logs
       /\ (pc = "loop" /\ batch'.i = batch.i + 1 /\ batch'.last.kind = "logged")
             => /\ Len(call_logs') = Len(call_logs) + 1
                /\ call_logs'[Len(call_logs')].candidate_id = batch.candidate_ids[batch.i]
       /\ (cb_count' = cb_count + 1 /\ cb_last'[1].result = "success")
             => /\ Len(call_logs') = Len(call_logs) + 1
                /\ call_logs'[Len(call_logs')].candidate_id
                      = cb_last'[1].data.candidate_id[1]
       /\ tr_count' = tr_count + 1 /\ tr_last'[1].op # "log_call"
             => call_logs' = call_logs
      ]_vars

\* C18 witness: the record of an earlier callback for candidate 2 still opens
\* the ledger after a batch logged two dispatches for the same candidate.
C18_Witness ==
    /\ pc = "returned"
    /\ batch.candidate_ids = <<2, 2>>
    /\ Len(call_logs) = 3
    /\ call_logs[1].call_status = "completed"
    /\ call_logs[1].candidate_id = 2
    /\ call_logs[2].candidate_id = 2
    /\ call_logs[2].call_status = "sent"
    /\ call_logs[3].candidate_id = 2
    /\ call_logs[3].call_status = "failed"

\* The last DataManager call from outside completed on an existing candidate.
TrackerDone ==
    /\ tr_last # None
    /\ tr_last[1].result \in {"returned", "success"}
    /\ tr_last[1].candidate_id \in DOMAIN tr_last[1].before

\* The axes the last update was given a value for.
AxesGiven ==
    {x \in {"contacted", "interested", "interview_scheduled"} : tr_last[1].args[x] # None}

\* The axes of the candidate that the last call changed.
AxesChanged ==
    {x \in {"contacted", "interested", "interview_scheduled"} :
        candidates[tr_last[1].candidate_id][x]
            # tr_last[1].before[tr_last[1].candidate_id][x]}

\* The value of an axis as the row stores it, for a value handed to the call.
Stored(x, v) == IF x = "interested" THEN v ELSE v[1]

\* update_candidate_status given one axis only sets that axis and no other.
UpdateOneAxisOnly ==
    (TrackerDone /\ tr_last[1].op \in {"update", "api_update"}
        /\ Cardinality(AxesGiven) = 1)
    => /\ AxesChanged \subseteq AxesGiven
       /\ \A x \in AxesGiven :
             candidates[tr_last[1].candidate_id][x] = Stored(x, tr_last[1].args[x])

\* C19 (as stated): every tracker operation given a value for one axis only,
\* log_call given only interested included, changes that axis and leaves the
\* other two axes as they were.
C19_AxesIndependent ==
    /\ UpdateOneAxisOnly
    /\ (TrackerDone /\ tr_last[1].op = "log_call" /\ tr_last[1].args.interested # None)
       => /\ AxesChanged \subseteq {"interested"}
          /\ candidates[tr_last[1].candidate_id].interested = tr_last[1].args.interested

\* C19 (amended): update_candidate_status given one axis only changes that
\* axis and leaves the other two; log_call given interested sets interested
\* and also sets contacted to true, and leaves interview_scheduled.
C19_AxesIndependentButLogCall ==
    /\ UpdateOneAxisOnly
    /\ (TrackerDone /\ tr_last[1].op = "log_call" /\ tr_last[1].args.interested # None)
       => /\ AxesChanged \subseteq {"interested", "contacted"}
          /\ candidates[tr_last[1].candidate_id].interested = tr_last[1].args.interested
          /\ candidates[tr_last[1].candidate_id].contacted = TRUE

\* C19 witness: log_call with interested False on candidate 1, not contacted
\* before: the candidate is now contacted and not interested.
C19_Witness ==
    /\ TrackerDone
    /\ tr_last[1].op = "log_call"
    /\ tr_last[1].candidate_id = 1
    /\ tr_last[1].args.interested = Some(FALSE)
    /\ ~tr_last[1].before[1].contacted
    /\ AxesChanged = {"interested", "contacted"}
    /\ ~candidates[1].interview_scheduled

\* C20: after the batch records a 'sent' dispatch for a candidate, that
\* candidate's contacted status is true, as it is after a callback.
C20_SentMarksContacted ==
    (/\ pc \in {"loop", "returned"}
     /\ batch.last.kind = "logged"
     /\ LastResult.status = "sent")
    => candidates[LastResult.candidate_id].contacted

(***************************************************************************)
(* Properties of the script formatter, checked under Spec (the batch       *)
(* formats one script for each candidate) and under SpecFormat.            *)
(***************************************************************************)
\* The template names a field the formatter is given no argument for, and
\* str.format meets it before any positional field.
HasUnknownName(template) ==
    /\ FirstUnfilled(template, 1) # 0
    /\ ~IsIndex(template[FirstUnfilled(template, 1)].text)

Contains(s, sub) ==
    \E i \in 1..(Len(s) + 1) :
        i + Len(sub) - 1 <= Len(s) /\ SubSeq(s, i, i + Len(sub) - 1) = sub

\* The call under study was given every key the method reads, and no template.
CompleteRecordNoTemplate ==
    /\ f_args # None
    /\ DOMAIN f_args[1].candidate_data = {"name", "experience_years"}
    /\ DOMAIN f_args[1].job_data = {"job_role", "location", "company_name"}
    /\ f_args[1].template = None

\* C22: format_call_script called with a complete candidate/job record (name,
\* job role, years of experience, location, company name) and no custom
\* template returns a script that contains every one of the values verbatim.
C22_EveryFieldInScript ==
    (CompleteRecordNoTemplate /\ f_script # None) =>
        /\ f_script[1].exc = ""
        /\ Contains(f_script[1].script, f_args[1].candidate_data["name"])
        /\ Contains(f_script[1].script, f_args[1].job_data["job_role"])
        /\ Contains(f_script[1].script, f_args[1].candidate_data["experience_years"])
        /\ Contains(f_script[1].script, f_args[1].job_data["location"])
        /\ Contains(f_script[1].script, f_args[1].job_data["company_name"])

(***************************************************************************)
(* Further properties of the validator, checked under SpecValidate.        *)
(***************************************************************************)
\* C23: a URL whose scheme is not http or https is rejected by the validator
\* whether the bypass flag is set or not.
C23_OtherSchemeRejected ==
    (/\ Validated
     /\ ~urlparse(v_url).raises
     /\ urlparse(v_url).scheme \notin {"http", "https"})
    => v_result = "rejected"

\* With the flag defined, False or True, the validator rejects every such URL.
OtherSchemeRejectedWhenFlagDefined ==
    ALLOW_LOCAL_WEBHOOKS # "undefined" => C23_OtherSchemeRejected

\* C24: every well-formed https URL whose hostname resolves to a public
\* address is accepted by the validator, hostnames that merely begin with the
\* text of an internal pattern (localhost.example.com, 10.example.com)
\* included; stated for a configuration that defines the flag.
C24_PublicHttpsAccepted ==
    (/\ Validated
     /\ ALLOW_LOCAL_WEBHOOKS # "undefined"
     /\ urlparse(v_url).scheme = "https"
     /\ urlparse(v_url).hostname # None
     /\ ResolvesTo(v_url) = "public")
    => v_result = "accepted"

(***************************************************************************)
(* Properties of the statistics, checked under SpecStatistics.             *)
(***************************************************************************)
\* The last tracker operation was get_statistics for a job search.
StatisticsRead ==
    /\ tr_last # None
    /\ tr_last[1].op = "get_statistics"
    /\ tr_last[1].candidate_id # None

\* The candidates of job search js in table cands that satisfy P.
CandidatesOf(cands, js, P(_)) ==
    {id \in DOMAIN cands : cands[id].job_search_id = js /\ P(cands[id])}

\* C25: after any sequence of candidate additions and status updates,
\* get_statistics for a job search reports contacted + pending_contact =
\* total_candidates, counts in 'interested' exactly the candidates whose
\* interested is true and in 'not_interested' exactly those whose interested is
\* false, and counts candidates with unknown interest in neither.
C25_StatisticsPartition ==
    StatisticsRead =>
        LET stats == tr_last[1].result
            was   == tr_last[1].before
            js    == tr_last[1].candidate_id[1]
        IN  /\ stats.total_candidates
                  = Cardinality(CandidatesOf(was, js, LAMBDA c : TRUE))
            /\ stats.contacted + stats.pending_contact = stats.total_candidates
            /\ stats.interested
                  = Cardinality(CandidatesOf(was, js, LAMBDA c : c.interested = Some(TRUE)))
            /\ stats.not_interested
                  = Cardinality(CandidatesOf(was, js, LAMBDA c : c.interested = Some(FALSE)))
            /\ stats.interested + stats.not_interested
                  = stats.total_candidates
                      - Cardinality(CandidatesOf(was, js, LAMBDA c : c.interested = None))

\* C25 witness: the statistics of test_get_statistics: of three candidates of
\* job search 1, two contacted, one interested, one not interested, one with
\* unknown interest and not contacted.
C25_Witness ==
    /\ StatisticsRead
    /\ tr_last[1].candidate_id = Some(1)
    /\ tr_last[1].result.total_candidates = 3
    /\ tr_last[1].result.contacted = 2
    /\ tr_last[1].result.interested = 1
    /\ tr_last[1].result.not_interested = 1
    /\ tr_last[1].result.pending_contact = 1

(***************************************************************************)
(* Properties of the order of a batch, checked under Spec.                 *)
(***************************************************************************)
\* seq is old, or old with one more element, which satisfies P.
SameOrOneMore(old, seq, P(_)) ==
    \/ seq = old
    \/ /\ Len(seq) = Len(old) + 1
       /\ SubSeq(seq, 1, Len(old)) = old
       /\ P(seq[Len(seq)])

\* C26: within one batch the candidates are handled one at a time, in input
\* order and with no retry.  Every step of the loop handles the next entry of
\* the input list and no other: it issues at most one POST (one call of
\* requests.post), for that entry's candidate, and at that time the CallLog
\* records of all earlier dispatches are written; it adds at most one CallLog
\* record and at most one result, both for that candidate and after those of
\* the earlier entries.
C26_OneAtATimeInOrder ==
    [][pc = "loop" =>
         /\ batch'.candidate_ids = batch.candidate_ids
         /\ batch'.i \in {batch.i, batch.i + 1}
         /\ batch'.i = batch.i =>
               /\ pc' = "returned"
               /\ http_posts' = http_posts
               /\ call_logs' = call_logs
               /\ batch'.results = batch.results
         /\ batch'.i = batch.i + 1 =>
               /\ SameOrOneMore(http_posts, http_posts',
                     LAMBDA p : /\ p.candidate_id = batch.candidate_ids[batch.i]
                                /\ p.logs_before = Len(call_logs))
               /\ SameOrOneMore(call_logs, call_logs',
                     LAMBDA r : r.candidate_id = batch.candidate_ids[batch.i])
               /\ SameOrOneMore(batch.results, batch'.results,
                     LAMBDA r : r.candidate_id = batch.candidate_ids[batch.i])
      ]_vars

\* C26 witness: the batch <<2, 1>> returned with both candidates dispatched:
\* the POSTs and the results stand in input order, and the POST for candidate 1
\* was issued with the record of candidate 2 written.
C26_Witness ==
    /\ pc = "returned"
    /\ batch.candidate_ids = <<2, 1>>
    /\ Len(http_posts) = 2
    /\ http_posts[1].candidate_id = 2
    /\ http_posts[2].candidate_id = 1
    /\ http_posts[2].logs_before = http_posts[1].logs_before + 1
    /\ call_logs[http_posts[2].logs_before].candidate_id = 2
    /\ Len(batch.results) = 2
    /\ batch.results[1].candidate_id = 2
    /\ batch.results[2].candidate_id = 1

(***************************************************************************)
(* Further properties of the callback, checked under Spec.                 *)
(***************************************************************************)
\* C27: in every state a batch dispatch or a callback can lead to (no caller
\* has used the DataManager directly), each CallLog record refers to a
\* candidate that exists, also after a callback naming a candidate id that is
\* not in storage.
C27_EveryLogHasCandidate ==
    tr_count = 0 => \A k \in 1..Len(call_logs) : Exists(call_logs[k].candidate_id)

\* C28: process_webhook_response applies its status update and its CallLog
\* append as one unit: whenever it returns an error result, for any cause
\* (a storage failure while the CallLog is appended included), no candidate
\* field has changed and no CallLog record has been added.
C28_CallbackAllOrNothing ==
    (cb_last # None /\ cb_last[1].result = "error") => CallbackChangedNothing

(***************************************************************************)
(* Properties of repeated runs, checked under SpecRerun.                   *)
(***************************************************************************)
\* The dispatch of POST p was recorded as 'sent': log_call wrote its record
\* right after the POST.
SentRecorded(p) ==
    /\ p.logs_before + 1 <= Len(call_logs)
    /\ call_logs[p.logs_before + 1].candidate_id = p.candidate_id
    /\ call_logs[p.logs_before + 1].call_status = "sent"

\* C29: a candidate for whom a run recorded a 'sent' dispatch is not
\* dispatched again by a later trigger-calls run that selects the candidates
\* of the job search not contacted yet, also when no callback arrives between
\* the runs.
C29_SentNotDispatchedAgain ==
    \A j \in 1..Len(http_posts) : \A k \in 1..Len(http_posts) :
        (/\ http_posts[j].run < http_posts[k].run
         /\ http_posts[j].candidate_id = http_posts[k].candidate_id)
        => ~SentRecorded(http_posts[j])

(***************************************************************************)
(* Properties of callbacks handled at the same time, checked under         *)
(* SpecConcurrent.                                                         *)
(***************************************************************************)
\* Both requests are answered.
BothDone == cc # << >> /\ \A h \in Handlers : cc[h].at = "done"

\* The CallLog records that request h's payload accounts for.
RecordsOf(h) ==
    {k \in 1..Len(call_logs) :
        /\ call_logs[k].candidate_id = cc[h].data.candidate_id[1]
        /\ call_logs[k].interested = cc[h].data.interested
        /\ call_logs[k].notes = cc[h].data.response}

\* Each accepted callback left one CallLog record, and the others none.
OneRecordPerAccepted ==
    /\ Len(call_logs) = Cardinality({h \in Handlers : cc[h].result = "success"})
    /\ \A h \in Handlers : cc[h].result = "success" => RecordsOf(h) # {}

\* C30: when two callbacks for the same candidate are processed at the same
\* time, under every interleaving each accepted callback leaves exactly one
\* CallLog record, and, where both carry an interested value and a response,
\* the candidate's final interested value and comments are both those of one
\* single callback (last writer wins), never one callback's interested with
\* the other's comments.
C30_LastWriterWinsWhole ==
    BothDone =>
        /\ OneRecordPerAccepted
        /\ (\A h \in Handlers :
               /\ cc[h].result = "success"
               /\ cc[h].data.interested # None
               /\ cc[h].data.response # None)
           => \E h \in Handlers :
                 /\ candidates[2].interested = cc[h].data.interested
                 /\ candidates[2].comments = cc[h].data.response

\* Each accepted callback leaves exactly one CallLog record, whatever the
\* interleaving.
EachAcceptedLoggedOnce == BothDone => OneRecordPerAccepted

====
